---- MODULE Spec2Model ----
(***************************************************************************)
(* The end-of-game sequence of hanabi-live (src/src/game_end.go):          *)
(* Game.End, Game.WriteDatabase and Table.ConvertToSharedReplay.           *)
(*                                                                         *)
(* Two tables share one table registry, one database and one notification  *)
(* log.  End() of a table is one atomic step (a table is a single-writer   *)
(* actor); what the database answers to each call is an oracle drawn in    *)
(* the initial state.                                                      *)
(***************************************************************************)
EXTENDS Integers, Sequences, FiniteSets, TLC

VARIABLES tables, table, game, db, sent, status, dbFail, pc

vars == <<tables, table, game, db, sent, status, dbFail, pc>>

(***************************************************************************)
(* Bounds                                                                  *)
(***************************************************************************)
MaxPlayers == 3
MaxSpectators == 1
MaxScore == 1
MaxFail == 1
MaxFailDb == 2

TableIds == {1, 2}

(***************************************************************************)
(* Program constants that game_end.go uses and other files declare         *)
(***************************************************************************)
EndConditionNormal == 1
EndConditionStrikeout == 2
EndConditionTimeout == 3
EndConditionTerminated == 4
EndConditionSpeedrunFail == 5
EndConditionIdleTimeout == 6

EndConditions == EndConditionNormal .. EndConditionIdleTimeout

NoOwner == 0 - 1

\* the keys of the characters map
characters == {"Genius", "Fuming"}

\* len(variants[...].Suits) of the one variant played
NumSuits == 2

\* len(g.Deck)
DeckSize == 3

(***************************************************************************)
(* Identities: users of table tid are numbered from 100 * tid, players     *)
(* first, the spectators that watch the game after them.                   *)
(***************************************************************************)
PlayerID(tid, i) == 100 * tid + i
SpectatorID(tid, j) == 100 * tid + 50 + j

PlayerIds == { PlayerID(tid, i) : tid \in TableIds, i \in 1 .. MaxPlayers }

UserIds == PlayerIds \cup { SpectatorID(tid, j) : tid \in TableIds, j \in 1 .. MaxSpectators }

\* A session handle is nil, or a connection that is open or closed
Sessions == {"nil", "open", "closed"}

\* Session.IsClosed() of a non-nil handle
IsClosed(s) == s = "closed"

\* a participant one can talk to
Connected(s) == s # "nil" /\ ~IsClosed(s)

Range(s) == { s[i] : i \in DOMAIN s }

(***************************************************************************)
(* Notifications.  A broadcast has no addressee; a direct message records  *)
(* the addressee and the state of the handle it was sent through.          *)
(***************************************************************************)
Broadcast(type) == [type |-> type, to |-> 0, sess |-> "all", arg |-> 0]
Direct(type, id, sess, arg) == [type |-> type, to |-> id, sess |-> sess, arg |-> arg]

Send(w, ev) == [w EXCEPT !.sent = Append(@, ev)]

(***************************************************************************)
(* Game.End, lines 20-23: the score of an abnormal end                     *)
(***************************************************************************)
FinalScoreKept(g) == g.Score

FinalScore(g) == IF g.EndCondition > EndConditionNormal THEN 0 ELSE g.Score

\* lines 26-39: the deck-order action
AppendDeckOrder(w) ==
    Send([w EXCEPT !.g.Actions = Append(@, "deckOrder")], Broadcast("gameAction"))

\* lines 48-62: one time text per player, in player order
RECURSIVE TimeTexts(_, _)
TimeTexts(w, i) ==
    IF i > Len(w.t.Players) THEN w
    ELSE TimeTexts(Send([w EXCEPT !.g.Actions = Append(@, "text")],
                        Broadcast("gameAction")), i + 1)

\* lines 64-72: the total duration text
TotalTimeText(w) ==
    Send([w EXCEPT !.g.Actions = Append(@, "text")], Broadcast("gameAction"))

\* the turn change broadcast without a turn added
TurnNotAdvanced(w) == Send(Send(w, Broadcast("turn")), Broadcast("gameOver"))

\* the game-over signal sent before the turn change
GameOverBeforeTurn(w) ==
    Send(Send([w EXCEPT !.g.Turn = @ + 1], Broadcast("gameOver")), Broadcast("turn"))

\* lines 74-79: the turn change and the game-over signal
AdvanceTurn(w) ==
    Send(Send([w EXCEPT !.g.Turn = @ + 1], Broadcast("turn")), Broadcast("gameOver"))

\* the cards of every hand sent to the player of the first seat
RECURSIVE RevealHandToFirst(_, _, _)
RevealHandToFirst(w, i, k) ==
    IF k > Len(w.g.Hands[i]) THEN w
    ELSE RevealHandToFirst(Send(w, Direct("reveal", w.t.Players[1].ID,
                                          w.t.Players[1].Session, w.g.Hands[i][k])),
                           i, k + 1)

\* lines 85-96: the cards of one hand, to the player that holds it
RECURSIVE RevealHand(_, _, _)
RevealHand(w, i, k) ==
    IF k > Len(w.g.Hands[i]) THEN w
    ELSE RevealHand(Send(w, Direct("reveal", w.t.Players[i].ID,
                                   w.t.Players[i].Session, w.g.Hands[i][k])),
                    i, k + 1)

\* lines 82-98
RECURSIVE Reveals(_, _)
Reveals(w, i) ==
    IF i > Len(w.t.Players) THEN w
    ELSE Reveals(IF w.t.Players[i].Present THEN RevealHand(w, i, 1) ELSE w, i + 1)

\* lines 108-113: back to the lobby
RECURSIVE ResetStatus(_, _)
ResetStatus(w, i) ==
    IF i > Len(w.t.Players) THEN w
    ELSE LET p == w.t.Players[i] IN
         ResetStatus(IF p.Session # "nil"
                     THEN Send(Send([w EXCEPT !.status[p.ID] = "Lobby"],
                                    Direct("status", p.ID, p.Session, 0)),
                               Broadcast("user"))
                     ELSE w,
                     i + 1)

(***************************************************************************)
(* The persistence gateway.  Every call is logged as                       *)
(* <<table, operation, i, j>> with the indices the code passes (0-based);  *)
(* it fails when the oracle of the table names it.                         *)
(***************************************************************************)
DbCall(w, op, i, j) == [w EXCEPT !.db.calls = Append(@, <<w.t.ID, op, i, j>>)]

Fails(w, op, i, j) == <<op, i, j>> \in w.fail

Abort(w) == [w EXCEPT !.err = TRUE]

\* models.Games.GetNumSimilar: the games recorded on the seed before the
\* one recorded last
GetNumSimilar(games, seed) ==
    LET same == { k \in DOMAIN games : games[k].Seed = seed }
    IN  IF same = {} THEN 0 ELSE Cardinality(same) - 1

\* lines 169-187: the game row
GameRow(w) ==
    [Name |-> w.t.Name, NumPlayers |-> Len(w.g.Hands), Seed |-> w.g.Seed,
     DeckPlays |-> w.t.Options.DeckPlays, EmptyClues |-> w.t.Options.EmptyClues,
     CharacterAssignments |-> w.t.Options.CharacterAssignments,
     Score |-> w.g.Score, NumTurns |-> w.g.Turn, EndCondition |-> w.g.EndCondition]

\* lines 188-193
InsertGame(w) ==
    LET w1 == DbCall(w, "Games.Insert", 0, 0)
    IN  IF Fails(w, "Games.Insert", 0, 0) THEN Abort(w1)
        ELSE [w1 EXCEPT !.db.games = Append(@, GameRow(w)),
                        !.g.ID = Len(w.db.games) + 1]

\* lines 199-213: the character of a participant; "unknown" is the error
CharacterID(w, i) ==
    IF ~w.t.Options.CharacterAssignments THEN "0"
    ELSE IF w.g.Characters[i] = "n/a" THEN "-1"
    ELSE IF w.g.Characters[i] \notin characters THEN "unknown"
    ELSE w.g.Characters[i]

\* participants inserted like notes: a failure is logged and skipped
RECURSIVE InsertParticipantsLenient(_, _)
InsertParticipantsLenient(w, i) ==
    IF i > Len(w.g.Hands) THEN w
    ELSE IF CharacterID(w, i) = "unknown" THEN Abort(w)
    ELSE LET w1 == DbCall(w, "GameParticipants.Insert", i - 1, 0)
         IN  InsertParticipantsLenient(
               IF Fails(w, "GameParticipants.Insert", i - 1, 0) THEN w1
               ELSE [w1 EXCEPT !.db.participants =
                        Append(@, [Game |-> w.g.ID, User |-> w.t.Players[i].ID,
                                   Index |-> i - 1, Character |-> CharacterID(w, i)])],
               i + 1)

\* lines 196-225
RECURSIVE InsertParticipants(_, _)
InsertParticipants(w, i) ==
    IF i > Len(w.g.Hands) THEN w
    ELSE IF CharacterID(w, i) = "unknown" THEN Abort(w)
    ELSE LET w1 == DbCall(w, "GameParticipants.Insert", i - 1, 0)
         IN  IF Fails(w, "GameParticipants.Insert", i - 1, 0) THEN Abort(w1)
             ELSE InsertParticipants(
                    [w1 EXCEPT !.db.participants =
                        Append(@, [Game |-> w.g.ID, User |-> w.t.Players[i].ID,
                                   Index |-> i - 1, Character |-> CharacterID(w, i)])],
                    i + 1)

\* the notes inserted like participants: a failure is returned
RECURSIVE InsertNotesOfStrict(_, _, _)
InsertNotesOfStrict(w, i, j) ==
    IF j > Len(w.g.Notes[i]) \/ w.err THEN w
    ELSE IF w.g.Notes[i][j] = "" THEN InsertNotesOfStrict(w, i, j + 1)
    ELSE LET w1 == DbCall(w, "GameParticipantNotes.Insert", i - 1, j - 1)
         IN  InsertNotesOfStrict(
               IF Fails(w, "GameParticipantNotes.Insert", i - 1, j - 1) THEN Abort(w1)
               ELSE [w1 EXCEPT !.db.notes =
                        Append(@, [Game |-> w.g.ID, User |-> w.t.Players[i].ID,
                                   Order |-> j - 1, Note |-> w.g.Notes[i][j]])],
               i, j + 1)

\* lines 231-241: the notes of one participant
RECURSIVE InsertNotesOf(_, _, _)
InsertNotesOf(w, i, j) ==
    IF j > Len(w.g.Notes[i]) THEN w
    ELSE IF w.g.Notes[i][j] = "" THEN InsertNotesOf(w, i, j + 1)
    ELSE LET w1 == DbCall(w, "GameParticipantNotes.Insert", i - 1, j - 1)
         IN  InsertNotesOf(
               IF Fails(w, "GameParticipantNotes.Insert", i - 1, j - 1) THEN w1
               ELSE [w1 EXCEPT !.db.notes =
                        Append(@, [Game |-> w.g.ID, User |-> w.t.Players[i].ID,
                                   Order |-> j - 1, Note |-> w.g.Notes[i][j]])],
               i, j + 1)

\* lines 228-242
RECURSIVE InsertNotes(_, _)
InsertNotes(w, i) ==
    IF i > Len(w.g.Hands) THEN w
    ELSE InsertNotes(InsertNotesOf(w, i, 1), i + 1)

\* lines 245-252
RECURSIVE InsertActions(_, _)
InsertActions(w, i) ==
    IF i > Len(w.g.Actions2) THEN w
    ELSE LET w1 == DbCall(w, "GameActions.Insert", i - 1, 0)
         IN  IF Fails(w, "GameActions.Insert", i - 1, 0) THEN Abort(w1)
             ELSE InsertActions(
                    [w1 EXCEPT !.db.actions =
                        Append(@, [Game |-> w.g.ID, Index |-> i - 1,
                                   Type |-> w.g.Actions2[i], Target |-> 0, Value |-> 0])],
                    i + 1)

\* a game-over action for every end that is not normal
AnyAbnormalEnd(g) == g.EndCondition > EndConditionNormal

\* lines 255-274: the game-over action of a special end, or none
HasGameOverAction(g) ==
    g.EndCondition \in {EndConditionTimeout, EndConditionTerminated, EndConditionIdleTimeout}

GameOverAction(g) ==
    [Type |-> "gameOver",
     Target |-> IF g.EndCondition = EndConditionIdleTimeout THEN 0 ELSE g.EndPlayer,
     Value |-> g.EndCondition]

\* lines 275-280
InsertGameOver(w) ==
    IF ~HasGameOverAction(w.g) THEN w
    ELSE LET n == Len(w.g.Actions2)
             w1 == DbCall(w, "GameActions.Insert", n, 0)
         IN  IF Fails(w, "GameActions.Insert", n, 0) THEN Abort(w1)
             ELSE [w1 EXCEPT !.db.actions =
                      Append(@, [Game |-> w.g.ID, Index |-> n] @@ GameOverAction(w.g))]

\* lines 283-290
RECURSIVE InsertChat(_, _)
InsertChat(w, k) ==
    IF k > Len(w.t.Chat) THEN w
    ELSE LET w1 == DbCall(w, "ChatLog.Insert", k - 1, 0)
         IN  InsertChat(
               IF Fails(w, "ChatLog.Insert", k - 1, 0) THEN w1
               ELSE [w1 EXCEPT !.db.chat = Append(@, [Room |-> w.t.ID, User |-> w.t.Chat[k]])],
               k + 1)

\* lines 293-299: the tags, in the order the map iteration yields them
RECURSIVE InsertTags(_, _)
InsertTags(w, k) ==
    IF k > Len(w.tagOrder) THEN w
    ELSE LET w1 == DbCall(w, "GameTags.Insert", w.tagOrder[k], 0)
         IN  InsertTags(
               IF Fails(w, "GameTags.Insert", w.tagOrder[k], 0) THEN w1
               ELSE [w1 EXCEPT !.db.tags = Append(@, [Game |-> w.g.ID, Tag |-> w.tagOrder[k]])],
               k + 1)

\* lines 317-323
Modifier(o) == (IF o.DeckPlays THEN 1 ELSE 0) + (IF o.EmptyClues THEN 2 ELSE 0)

\* the rows of the models package hold their best scores by reference:
\* what lines 330-331 and 358 assign through the slot read on lines 326 and
\* 356 is part of the row that is written
WithBest(stats, b, best) == [stats EXCEPT !.BestScores[b] = best]

\* models.UserStats.Update: the row written, one more game played
UserStatsUpdate(stats) == [stats EXCEPT !.NumGames = @ + 1]

\* models.VariantStats.Update: the row written, one more game played
VariantStatsUpdate(stats) == [stats EXCEPT !.NumGames = @ + 1]

\* a best score that an equal score replaces whatever the modifier
NewUserBestOnTie(best, score, modifier) ==
    IF score >= best.Score THEN [Score |-> score, Modifier |-> modifier] ELSE best

\* lines 326-332: the best score of the bucket of this player count
NewUserBest(best, score, modifier) ==
    IF score > best.Score \/ (score = best.Score /\ modifier < best.Modifier)
    THEN [Score |-> score, Modifier |-> modifier]
    ELSE best

\* lines 302-341
RECURSIVE UpdateUserStats(_, _)
UpdateUserStats(w, i) ==
    IF i > Len(w.t.Players) THEN w
    ELSE LET p == w.t.Players[i]
             w1 == DbCall(w, "UserStats.Get", i - 1, 0)
         IN  IF Fails(w, "UserStats.Get", i - 1, 0) THEN UpdateUserStats(w1, i + 1)
             ELSE LET stats == w.db.userStats[p.ID]
                      b == Len(w.g.Hands) - 2
                      new == WithBest(stats, b, NewUserBest(stats.BestScores[b], w.g.Score,
                                                            Modifier(w.t.Options)))
                      w2 == DbCall(w1, "UserStats.Update", i - 1, 0)
                  IN  UpdateUserStats(
                        IF Fails(w, "UserStats.Update", i - 1, 0) THEN w2
                        ELSE [w2 EXCEPT !.db.userStats[p.ID] = UserStatsUpdate(new)],
                        i + 1)

\* a variant best score that a game with modifiers can set
NewVariantBestAnyOptions(best, score, o) == IF score > best THEN score ELSE best

\* lines 354-360
NewVariantBest(best, score, o) ==
    IF ~o.DeckPlays /\ ~o.EmptyClues /\ score > best THEN score ELSE best

\* lines 344-373
UpdateVariantStats(w) ==
    LET w1 == DbCall(w, "VariantStats.Get", 0, 0)
    IN  IF Fails(w, "VariantStats.Get", 0, 0) THEN Abort(w1)
        ELSE LET b == Len(w.g.Hands) - 2
                 stats == w.db.variantStats
                 new == WithBest(stats, b, NewVariantBest(stats.BestScores[b], w.g.Score,
                                                          w.t.Options))
                 w2 == DbCall(w1, "VariantStats.Update", 0, 0)
             IN  IF Fails(w, "VariantStats.Update", 0, 0) THEN Abort(w2)
                 ELSE [w2 EXCEPT !.db.variantStats = VariantStatsUpdate(new)]

\* one stage of WriteDatabase: nothing runs after an error was returned
Then(w, Stage(_)) == IF w.err THEN w ELSE Stage(w)

AllParticipants(w) == InsertParticipants(w, 1)
AllNotes(w) == InsertNotes(w, 1)
AllActions(w) == InsertActions(w, 1)
AllChat(w) == InsertChat(w, 1)
AllTags(w) == InsertTags(w, 1)
AllUserStats(w) == UpdateUserStats(w, 1)

\* lines 166-377
WriteDatabase(w) ==
    Then(Then(Then(Then(Then(Then(Then(Then(InsertGame(w),
        AllParticipants), AllNotes), AllActions), InsertGameOver), AllChat), AllTags),
        AllUserStats), UpdateVariantStats)

(***************************************************************************)
(* Table.ConvertToSharedReplay                                             *)
(***************************************************************************)
\* lines 432-445: the owner is away and has no live connection
OwnerOffline(t) ==
    \E i \in DOMAIN t.Players :
        /\ ~t.Players[i].Present
        /\ t.Players[i].ID = t.Owner
        /\ (t.Players[i].Session = "nil" \/ IsClosed(t.Players[i].Session))

\* lines 454-460
NewSpectator(p) ==
    [ID |-> p.ID, Name |-> p.Name, Session |-> p.Session,
     Notes |-> [k \in 1 .. DeckSize + NumSuits |-> ""]]

\* lines 433-463 without the test of line 436
RECURSIVE PromotedAbsentToo(_, _, _)
PromotedAbsentToo(t, g, i) ==
    IF i > Len(t.Players) THEN <<>>
    ELSE (IF g.EndCondition # EndConditionIdleTimeout
          THEN <<NewSpectator(t.Players[i])>> ELSE <<>>)
         \o PromotedAbsentToo(t, g, i + 1)

\* lines 433-463, with the idle-timeout skip of lines 449-451 left out
RECURSIVE PromotedAlways(_, _, _)
PromotedAlways(t, g, i) ==
    IF i > Len(t.Players) THEN <<>>
    ELSE (IF t.Players[i].Present THEN <<NewSpectator(t.Players[i])>> ELSE <<>>)
         \o PromotedAlways(t, g, i + 1)

\* lines 433-463: the spectators made of the players from seat i on
RECURSIVE Promoted(_, _, _)
Promoted(t, g, i) ==
    IF i > Len(t.Players) THEN <<>>
    ELSE (IF t.Players[i].Present /\ g.EndCondition # EndConditionIdleTimeout
          THEN <<NewSpectator(t.Players[i])>> ELSE <<>>)
         \o Promoted(t, g, i + 1)

\* lines 477-483: the first present player, or no owner
RECURSIVE FirstPresent(_, _)
FirstPresent(players, i) ==
    IF i > Len(players) THEN NoOwner
    ELSE IF players[i].Present THEN players[i].ID
    ELSE FirstPresent(players, i + 1)

\* lines 472-490: the owner after the election
ElectLeader(t) ==
    IF ~OwnerOffline(t) THEN t.Owner
    ELSE LET first == FirstPresent(t.Players, 1)
         IN  IF first # NoOwner THEN t.Spectators[1].ID ELSE first

\* lines 500-522: what each spectator is told
RECURSIVE NotifyEachSpectator(_, _)
NotifyEachSpectator(w, j) ==
    IF j > Len(w.t.Spectators) THEN w
    ELSE LET sp == w.t.Spectators[j]
             w1 == IF sp.Session # "nil"
                   THEN Send(Send([w EXCEPT !.status[sp.ID] = "SharedReplay"],
                                  Direct("status", sp.ID, sp.Session, 1)),
                             Broadcast("user"))
                   ELSE w
             w2 == Send(w1, Direct("replayLeader", sp.ID, sp.Session, w.t.Owner))
             w3 == Send(w2, Direct("noteList", sp.ID, sp.Session, 0))
             w4 == Send(w3, Direct("databaseID", sp.ID, sp.Session, w.g.ID))
         IN  NotifyEachSpectator(w4, j + 1)

\* the deletion placed under the owner-offline test
NoOneLeftWhenOwnerOffline(t) == Len(t.Spectators) = 0 /\ OwnerOffline(t)

\* line 466
NoOneLeft(t) == Len(t.Spectators) = 0

\* the conversion without the table listing of line 524
ConvertWithoutListing(w) ==
    LET w1 == [w EXCEPT !.t.Replay = TRUE,
                        !.t.Name = [kind |-> "Shared replay for game #", n |-> w.g.ID],
                        !.g.EndTurn = w.g.Turn,
                        !.g.Turn = @ - 1,
                        !.t.Progress = 100]
        w2 == [w1 EXCEPT !.t.Spectators = @ \o Promoted(w1.t, w1.g, 1)]
    IN  IF NoOneLeft(w2.t)
        THEN [w2 EXCEPT !.reg = @ \ {w.t.ID}, !.ret = "deleted"]
        ELSE LET w3 == [w2 EXCEPT !.t.Owner = ElectLeader(w2.t)]
                 w4 == Send([w3 EXCEPT !.t.Players =
                                [i \in DOMAIN @ |-> [@[i] EXCEPT !.Present = TRUE]]],
                            Broadcast("connected"))
                 w5 == NotifyEachSpectator(w4, 1)
             IN  [Send(w5, Broadcast("spectators")) EXCEPT !.ret = "converted"]

\* lines 420-526
ConvertToSharedReplay(w) ==
    LET w1 == [w EXCEPT !.t.Replay = TRUE,
                        !.t.Name = [kind |-> "Shared replay for game #", n |-> w.g.ID],
                        !.g.EndTurn = w.g.Turn,
                        !.g.Turn = @ - 1,
                        !.t.Progress = 100]
        ownerOffline == OwnerOffline(w1.t)
        w2 == [w1 EXCEPT !.t.Spectators = @ \o Promoted(w1.t, w1.g, 1)]
    IN  IF NoOneLeft(w2.t)
        THEN [w2 EXCEPT !.reg = @ \ {w.t.ID}, !.ret = "deleted"]
        ELSE LET w3 == [w2 EXCEPT !.t.Owner = ElectLeader(w2.t)]
                 w4 == Send([w3 EXCEPT !.t.Players =
                                [i \in DOMAIN @ |-> [@[i] EXCEPT !.Present = TRUE]]],
                            Broadcast("connected"))
                 w5 == NotifyEachSpectator(w4, 1)
             IN  [Send(Send(w5, Broadcast("table")), Broadcast("spectators"))
                    EXCEPT !.ret = "converted"]

(***************************************************************************)
(* Game.End                                                                *)
(***************************************************************************)
\* lines 128-156: the one record of the "gameHistory" message
GameHistory(w, numSimilar) ==
    [ID |-> w.g.ID, NumPlayers |-> Len(w.g.Hands), Seed |-> w.g.Seed,
     Score |-> w.g.Score, NumTurns |-> w.g.Turn, EndCondition |-> w.g.EndCondition,
     NumSimilar |-> numSimilar,
     PlayerNames |-> { w.t.Players[i].Name : i \in DOMAIN w.t.Players }]

\* lines 157-159
RECURSIVE EmitHistory(_, _, _)
EmitHistory(w, h, i) ==
    IF i > Len(w.t.Players) THEN w
    ELSE EmitHistory(Send(w, Direct("gameHistory", w.t.Players[i].ID,
                                    w.t.Players[i].Session, h)), h, i + 1)

\* lines 46-113: the announcements of a live game
Announce(w) ==
    ResetStatus(Send(Reveals(AdvanceTurn(TotalTimeText(TimeTexts(w, 1))), 1),
                     Broadcast("tableGone")), 1)

\* the history sent with a count that was never assigned
AfterWriteNoCount(w) ==
    LET w1 == DbCall(w, "Games.GetNumSimilar", 0, 0)
    IN  IF Fails(w, "Games.GetNumSimilar", 0, 0) THEN [w1 EXCEPT !.ret = "similarError"]
        ELSE ConvertToSharedReplay(EmitHistory(w1, GameHistory(w1, 0), 1))

\* lines 120-163: after the game was recorded
AfterWrite(w) ==
    LET w1 == DbCall(w, "Games.GetNumSimilar", 0, 0)
    IN  IF Fails(w, "Games.GetNumSimilar", 0, 0) THEN [w1 EXCEPT !.ret = "similarError"]
        ELSE LET h == GameHistory(w1, GetNumSimilar(w1.db.games, w1.g.Seed))
             IN  ConvertToSharedReplay(EmitHistory(w1, h, 1))

\* End() that goes on after a failed WriteDatabase
EndOfIgnoringError(w) ==
    LET w1 == AppendDeckOrder([w EXCEPT !.g.DatetimeFinished = "now",
                                        !.g.Score = FinalScore(w.g)])
    IN  IF w1.t.Options.Replay THEN [w1 EXCEPT !.ret = "replay"]
        ELSE LET w2 == WriteDatabase(Announce(w1))
             IN  IF w2.err THEN [AfterWrite(w2) EXCEPT !.ret = "dbError"]
                 ELSE AfterWrite(w2)

\* End() without the early return of a replay
EndOfNoReplayCheck(w) ==
    LET w1 == AppendDeckOrder([w EXCEPT !.g.DatetimeFinished = "now",
                                        !.g.Score = FinalScore(w.g)])
        w2 == WriteDatabase(Announce(w1))
    IN  IF w1.t.Options.Replay THEN [w2 EXCEPT !.ret = "replay"]
        ELSE IF w2.err THEN [w2 EXCEPT !.ret = "dbError"]
        ELSE AfterWrite(w2)

\* lines 16-164
EndOf(w) ==
    LET w1 == AppendDeckOrder([w EXCEPT !.g.DatetimeFinished = "now",
                                        !.g.Score = FinalScore(w.g)])
    IN  IF w1.t.Options.Replay THEN [w1 EXCEPT !.ret = "replay"]
        ELSE LET w2 == WriteDatabase(Announce(w1))
             IN  IF w2.err THEN [w2 EXCEPT !.ret = "dbError"]
                 ELSE AfterWrite(w2)

\* the orders in which a map iteration can yield the tags
Orders(S) ==
    { o \in [1 .. Cardinality(S) -> S] : \A a, b \in DOMAIN o : a # b => o[a] # o[b] }

World(tid, tagOrder) ==
    [t |-> table[tid], g |-> game[tid], db |-> db, sent |-> sent[tid],
     status |-> status, reg |-> tables, fail |-> dbFail[tid], err |-> FALSE,
     tagOrder |-> tagOrder, ret |-> "running"]

\* one call of End() on the game of a table that is still being played
End(tid) ==
    /\ pc[tid] = "running"
    /\ \E tagOrder \in Orders(game[tid].Tags) :
         \E w \in {EndOf(World(tid, tagOrder))} :
             /\ table' = [table EXCEPT ![tid] = w.t]
             /\ game' = [game EXCEPT ![tid] = w.g]
             /\ db' = w.db
             /\ sent' = [sent EXCEPT ![tid] = w.sent]
             /\ status' = w.status
             /\ tables' = w.reg
             /\ pc' = [pc EXCEPT ![tid] = w.ret]
    /\ UNCHANGED dbFail

Next == \E tid \in TableIds : End(tid)

(***************************************************************************)
(* Initial states: two games that are being played.  A configuration says  *)
(* who sits at a table, who watches, how the game ended and what the       *)
(* database will answer.                                                   *)
(***************************************************************************)
\* a present player has a live connection (line 91 uses it unchecked);
\* an absent one is in the lobby, or has a closed or no connection
PlayerStates ==
    { [Present |-> TRUE, Session |-> "open"], [Present |-> FALSE, Session |-> "open"],
      [Present |-> FALSE, Session |-> "closed"], [Present |-> FALSE, Session |-> "nil"] }

AllPresent(n) == [i \in 1 .. n |-> [Present |-> TRUE, Session |-> "open"]]

SeqsUpTo(S, n) == UNION { [1 .. k -> S] : k \in 0 .. n }

RECURSIVE SubsetsUpTo(_, _)
SubsetsUpTo(S, k) ==
    IF k = 0 THEN {{}}
    ELSE LET less == SubsetsUpTo(S, k - 1)
         IN  less \cup { x \cup {e} : x \in less, e \in S }

HandOf(i) == IF i = 1 THEN <<1, 2>> ELSE IF i = 2 THEN <<3>> ELSE <<>>
NotesOf(i) == IF i = 1 THEN <<"", "x", "y">> ELSE IF i = 2 THEN <<"z">> ELSE <<>>

\* the persistence calls End() can make for a game of n players
CallsOf(n) ==
    { <<"Games.Insert", 0, 0>>, <<"ChatLog.Insert", 0, 0>>, <<"VariantStats.Get", 0, 0>>,
      <<"VariantStats.Update", 0, 0>>, <<"Games.GetNumSimilar", 0, 0>> }
    \cup { <<"GameParticipants.Insert", i, 0>> : i \in 0 .. n - 1 }
    \cup { <<"UserStats.Get", i, 0>> : i \in 0 .. n - 1 }
    \cup { <<"UserStats.Update", i, 0>> : i \in 0 .. n - 1 }
    \cup { <<"GameActions.Insert", i, 0>> : i \in 0 .. 2 }
    \cup { <<"GameParticipantNotes.Insert", 0, 1>>, <<"GameParticipantNotes.Insert", 0, 2>>,
           <<"GameParticipantNotes.Insert", 1, 0>> }
    \cup { <<"GameTags.Insert", 1, 0>>, <<"GameTags.Insert", 2, 0>> }

BaseConfig ==
    [players |-> AllPresent(2), owner |-> 1, spectators |-> <<>>,
     ec |-> EndConditionNormal, score |-> 1, replay |-> FALSE,
     deckPlays |-> FALSE, emptyClues |-> FALSE, charAssign |-> FALSE,
     chars |-> <<"n/a", "n/a">>, seed |-> 1, tags |-> {1}, fail |-> {}]

MkTable(tid, c) ==
    [ID |-> tid, Name |-> [kind |-> "game", n |-> tid], Replay |-> FALSE,
     Owner |-> PlayerID(tid, c.owner), Progress |-> 50,
     Players |-> [i \in DOMAIN c.players |->
                    [ID |-> PlayerID(tid, i), Name |-> PlayerID(tid, i),
                     Present |-> c.players[i].Present, Session |-> c.players[i].Session]],
     Spectators |-> [j \in DOMAIN c.spectators |->
                    [ID |-> SpectatorID(tid, j), Name |-> SpectatorID(tid, j),
                     Session |-> c.spectators[j],
                     Notes |-> [k \in 1 .. DeckSize + NumSuits |-> ""]]],
     Chat |-> <<PlayerID(tid, 1)>>,
     Options |-> [Replay |-> c.replay, DeckPlays |-> c.deckPlays,
                  EmptyClues |-> c.emptyClues, CharacterAssignments |-> c.charAssign]]

MkGame(tid, c) ==
    [ID |-> 0, Score |-> c.score, EndCondition |-> c.ec, EndPlayer |-> 1,
     DatetimeFinished |-> "unset",
     Turn |-> 1 + tid, EndTurn |-> 0, Seed |-> c.seed,
     Actions |-> <<"draw", "play">>, Actions2 |-> <<"play", "clue">>,
     Hands |-> [i \in DOMAIN c.players |-> HandOf(i)],
     Notes |-> [i \in DOMAIN c.players |-> NotesOf(i)],
     Characters |-> c.chars, Tags |-> c.tags]

Buckets == 0 .. (MaxPlayers - 2)

EmptyDb ==
    [calls |-> <<>>, games |-> <<>>, participants |-> <<>>, notes |-> <<>>,
     actions |-> <<>>, chat |-> <<>>, tags |-> <<>>,
     userStats |-> [u \in PlayerIds |->
                      [NumGames |-> 0,
                       BestScores |-> [b \in Buckets |-> [Score |-> 0, Modifier |-> 0]]]],
     variantStats |-> [NumGames |-> 0, BestScores |-> [b \in Buckets |-> 0]]]

\* the database with the best scores stored by earlier games: the same
\* (score, modifier) for every user and the same score for the variant,
\* in every bucket
StoredDb(userBest, variantBest) ==
    [EmptyDb EXCEPT
       !.userStats = [u \in PlayerIds |->
                        [NumGames |-> 0, BestScores |-> [b \in Buckets |-> userBest]]],
       !.variantStats = [NumGames |-> 0, BestScores |-> [b \in Buckets |-> variantBest]]]

InitWith(c1, c2, db0) ==
    LET c == <<c1, c2>> IN
    /\ tables = TableIds
    /\ table = [tid \in TableIds |-> MkTable(tid, c[tid])]
    /\ game = [tid \in TableIds |-> MkGame(tid, c[tid])]
    /\ db = db0
    /\ sent = [tid \in TableIds |-> <<>>]
    /\ status = [u \in UserIds |->
                   IF \E tid \in TableIds : \E i \in DOMAIN c[tid].players : u = PlayerID(tid, i)
                   THEN "Playing"
                   ELSE IF \E tid \in TableIds : \E j \in DOMAIN c[tid].spectators :
                              u = SpectatorID(tid, j)
                        THEN "Spectating" ELSE "Lobby"]
    /\ dbFail = [tid \in TableIds |-> c[tid].fail]
    /\ pc = [tid \in TableIds |-> "running"]

InitFrom(c1, c2) == InitWith(c1, c2, EmptyDb)

\* one call of each stage of the end sequence
KeyCalls ==
    { <<"Games.Insert", 0, 0>>, <<"UserStats.Get", 0, 0>>,
      <<"VariantStats.Update", 0, 0>>, <<"Games.GetNumSimilar", 0, 0>> }

\* the games of the main specification: any end, any score, replays, some
\* database failure; every player is at the table, or the last one has left
\* and disconnected
Configs1 ==
    { [BaseConfig EXCEPT !.players = [AllPresent(n) EXCEPT ![n] = last],
                         !.chars = [i \in 1 .. n |-> "n/a"],
                         !.ec = ec, !.score = sc, !.replay = rp, !.fail = f] :
        n \in 2 .. MaxPlayers, ec \in EndConditions, sc \in 0 .. MaxScore,
        last \in { [Present |-> TRUE, Session |-> "open"],
                   [Present |-> FALSE, Session |-> "nil"] },
        rp \in BOOLEAN, f \in SubsetsUpTo(KeyCalls, MaxFail) }

Configs2 ==
    { [BaseConfig EXCEPT !.seed = sd, !.tags = {}, !.fail = f] :
        sd \in 1 .. 2, f \in {{}, {<<"Games.Insert", 0, 0>>}} }

Init == \E c1 \in Configs1, c2 \in Configs2 : InitFrom(c1, c2)

Spec == Init /\ [][Next]_vars

\* the games of the conversion: who is present, connected, owner (the
\* first or the second player), watching
ConfigsConv ==
    { [BaseConfig EXCEPT !.players = ps, !.chars = [i \in DOMAIN ps |-> "n/a"],
                         !.owner = o, !.spectators = sp, !.ec = ec] :
        ps \in UNION { [1 .. n -> PlayerStates] : n \in 2 .. MaxPlayers },
        o \in 1 .. 2, sp \in SeqsUpTo({"open", "nil"}, MaxSpectators),
        ec \in {EndConditionNormal, EndConditionIdleTimeout} }

InitConv == \E c1 \in ConfigsConv : InitFrom(c1, [BaseConfig EXCEPT !.tags = {}])

SpecConv == InitConv /\ [][Next]_vars

\* the games of the persistence: characters, tags, and database failures
Casts ==
    { [on |-> FALSE, chars |-> <<"n/a", "n/a">>], [on |-> TRUE, chars |-> <<"Genius", "n/a">>],
      [on |-> TRUE, chars |-> <<"Fuming", "Nobody">>],
      [on |-> TRUE, chars |-> <<"Nobody", "Genius">>] }

ConfigsDb ==
    { [BaseConfig EXCEPT !.chars = ca.chars, !.charAssign = ca.on, !.ec = ec,
                         !.tags = {1, 2}, !.fail = f] :
        ca \in Casts, ec \in {EndConditionNormal, EndConditionTimeout},
        f \in SubsetsUpTo(CallsOf(2), MaxFailDb) }

InitDb == \E c1 \in ConfigsDb : InitFrom(c1, [BaseConfig EXCEPT !.tags = {}])

SpecDb == InitDb /\ [][Next]_vars

\* the games of the statistics: any options, a normal end or a strikeout,
\* a failure of the stats calls of the first player, and best scores
\* stored by earlier games
ConfigsStats ==
    { [BaseConfig EXCEPT !.players = AllPresent(n), !.chars = [i \in 1 .. n |-> "n/a"],
                         !.ec = ec, !.score = sc, !.deckPlays = dp, !.emptyClues = em,
                         !.fail = f] :
        n \in 2 .. MaxPlayers, ec \in {EndConditionNormal, EndConditionStrikeout},
        sc \in 0 .. MaxScore, dp \in BOOLEAN, em \in BOOLEAN,
        f \in {{}, {<<"UserStats.Get", 0, 0>>}, {<<"UserStats.Update", 0, 0>>},
                {<<"VariantStats.Update", 0, 0>>}} }

StoredBests == [Score : 0 .. MaxScore, Modifier : 0 .. 3]

InitStats ==
    \E c1 \in ConfigsStats, ub \in StoredBests, vb \in 0 .. MaxScore :
        InitWith(c1, [BaseConfig EXCEPT !.tags = {}], StoredDb(ub, vb))

SpecStats == InitStats /\ [][Next]_vars

(***************************************************************************)
(* End() of different tables running in parallel.  game_end.go takes no    *)
(* lock: everything End() does before line 467 is one step here, and the   *)
(* write of the registry map on line 467 is a step of its own, with a      *)
(* beginning and an end.                                                   *)
(***************************************************************************)
\* End() up to line 467: as End(), but a table that is to be removed is
\* still in the registry, its delete() under way
EndUpToDelete(tid) ==
    /\ pc[tid] = "running"
    /\ \E tagOrder \in Orders(game[tid].Tags) :
         \E w \in {EndOf(World(tid, tagOrder))} :
             /\ table' = [table EXCEPT ![tid] = w.t]
             /\ game' = [game EXCEPT ![tid] = w.g]
             /\ db' = w.db
             /\ sent' = [sent EXCEPT ![tid] = w.sent]
             /\ status' = w.status
             /\ tables' = tables
             /\ pc' = [pc EXCEPT ![tid] = IF w.ret = "deleted" THEN "deleting" ELSE w.ret]
    /\ UNCHANGED dbFail

\* the tables whose delete() of line 467 is under way
Deleting == { tid \in TableIds : pc[tid] = "deleting" }

\* line 467, delete(tables, t.ID), completing.  Alone, it removes the
\* table.  While another delete() of the same map is under way the two
\* writes race: the table is removed, or the write is lost, or the runtime
\* stops the process
DeleteTable(tid) ==
    /\ pc[tid] = "deleting"
    /\ IF Deleting = {tid}
       THEN /\ tables' = tables \ {tid}
            /\ pc' = [pc EXCEPT ![tid] = "deleted"]
       ELSE \/ /\ tables' = tables \ {tid}
               /\ pc' = [pc EXCEPT ![tid] = "deleted"]
            \/ /\ tables' = tables
               /\ pc' = [pc EXCEPT ![tid] = "deleted"]
            \/ /\ tables' = tables
               /\ pc' = [t \in TableIds |-> "crashed"]
    /\ UNCHANGED <<table, game, db, sent, status, dbFail>>

NextPar == \E tid \in TableIds : EndUpToDelete(tid) \/ DeleteTable(tid)

\* the games that End() may remove: an idle timeout or a normal end, the
\* last player at the table or gone, the game row inserted or not
ConfigsPar ==
    { [BaseConfig EXCEPT !.players = [AllPresent(n) EXCEPT ![n] = last],
                         !.chars = [i \in 1 .. n |-> "n/a"],
                         !.ec = ec, !.tags = {}, !.fail = f] :
        n \in 2 .. MaxPlayers, ec \in {EndConditionNormal, EndConditionIdleTimeout},
        last \in { [Present |-> TRUE, Session |-> "open"],
                   [Present |-> FALSE, Session |-> "nil"] },
        f \in {{}, {<<"Games.Insert", 0, 0>>}} }

InitPar == \E c1 \in ConfigsPar, c2 \in ConfigsPar : InitFrom(c1, c2)

SpecPar == InitPar /\ [][NextPar]_vars

(***************************************************************************)
(* Properties                                                              *)
(***************************************************************************)
Types(tid) == [k \in DOMAIN sent[tid] |-> sent[tid][k].type]

Has(tid, type) == \E k \in DOMAIN sent[tid] : sent[tid][k].type = type

\* End() of table tid is the step being taken
Ends(tid) == pc[tid] = "running" /\ pc'[tid] # "running"

\* the step is a call of End() that ran the conversion to the end
Converts(tid) == pc[tid] = "running" /\ pc'[tid] = "converted"

\* the players and spectators of a table
Participants(t) == Range(t.Players) \cup Range(t.Spectators)

\* C1: when the conversion keeps the table and a player is present or a
\* spectator is connected, the owner afterwards is the id of a connected
\* participant - never "no owner", never someone disconnected
C1_ConnectedLeader ==
    [][\A tid \in TableIds :
         (/\ Converts(tid)
          /\ \/ \E i \in DOMAIN table[tid].Players : table[tid].Players[i].Present
             \/ \E j \in DOMAIN table[tid].Spectators :
                    Connected(table[tid].Spectators[j].Session))
         => \E x \in Participants(table'[tid]) :
                x.ID = table'[tid].Owner /\ Connected(x.Session)]_vars

\* C2: when the owner is away and disconnected, the new owner is the first
\* present player in seating order, and the first spectator only when no
\* player is present; otherwise the owner is unchanged
C2_ElectionOrder ==
    [][\A tid \in TableIds :
         Converts(tid)
         => table'[tid].Owner =
              IF ~OwnerOffline(table[tid]) THEN table[tid].Owner
              ELSE IF \E i \in DOMAIN table[tid].Players : table[tid].Players[i].Present
                   THEN FirstPresent(table[tid].Players, 1)
                   ELSE table'[tid].Spectators[1].ID]_vars

\* what End() has announced when it calls WriteDatabase
RECURSIVE AnnouncedReveals(_, _, _)
AnnouncedReveals(t, g, i) ==
    IF i > Len(t.Players) THEN <<>>
    ELSE (IF t.Players[i].Present THEN [k \in DOMAIN g.Hands[i] |-> "reveal"] ELSE <<>>)
         \o AnnouncedReveals(t, g, i + 1)

RECURSIVE AnnouncedStatus(_, _)
AnnouncedStatus(t, i) ==
    IF i > Len(t.Players) THEN <<>>
    ELSE (IF t.Players[i].Session # "nil" THEN <<"status", "user">> ELSE <<>>)
         \o AnnouncedStatus(t, i + 1)

Announced(t, g) ==
    <<"gameAction">> \o [i \in 1 .. Len(t.Players) + 1 |-> "gameAction"]
    \o <<"turn", "gameOver">> \o AnnouncedReveals(t, g, 1)
    \o <<"tableGone">> \o AnnouncedStatus(t, 1)

\* C3: when WriteDatabase fails, End() has sent all its announcements and
\* stops: no gameHistory message, no conversion, the table stays registered
C3_FailedWriteStops ==
    [][\A tid \in TableIds :
         (pc[tid] = "running" /\ pc'[tid] = "dbError")
         => /\ Types(tid)' = Types(tid) \o Announced(table[tid], game[tid])
            /\ ~Has(tid, "gameHistory")'
            /\ table'[tid] = table[tid]
            /\ game'[tid].EndTurn = game[tid].EndTurn
            /\ game'[tid].Turn = game[tid].Turn + 1
            /\ tid \in tables'
            /\ \A k \in DOMAIN db'.calls :
                  db'.calls[k][1] = tid => db'.calls[k][2] # "Games.GetNumSimilar"]_vars

C3_Witness ==
    \E tid \in TableIds :
        /\ pc[tid] = "dbError"
        /\ Has(tid, "tableGone")
        /\ Has(tid, "reveal")
        /\ ~table[tid].Replay

\* the history records sent about the game of a table
Histories(tid) ==
    { sent[tid][k].arg : k \in { k \in DOMAIN sent[tid] : sent[tid][k].type = "gameHistory" } }

\* C4: after End() the score of a game that did not end normally is 0, in
\* the game, in its persisted row, in the stats written and in the history
\* record; a normal end keeps the score
C4_AbnormalScoreZero ==
    [][\A tid \in TableIds :
         Ends(tid)
         => LET g == game'[tid] IN
            IF g.EndCondition # EndConditionNormal
            THEN /\ g.Score = 0
                 /\ g.ID # 0 => db'.games[g.ID].Score = 0
                 /\ \A h \in Histories(tid)' : h.Score = 0
                 /\ \A i \in DOMAIN table[tid].Players :
                       db'.userStats[table[tid].Players[i].ID].BestScores
                          = db.userStats[table[tid].Players[i].ID].BestScores
            ELSE /\ g.Score = game[tid].Score
                 /\ g.ID # 0 => db'.games[g.ID].Score = game[tid].Score
                 /\ \A h \in Histories(tid)' : h.Score = game[tid].Score]_vars

C4_Witness ==
    \E tid \in TableIds :
        /\ pc[tid] = "converted"
        /\ game[tid].EndCondition = EndConditionTerminated
        /\ game[tid].Score = 0
        /\ db.games[game[tid].ID].Score = 0
        /\ Histories(tid) # {}
        /\ db.userStats[table[tid].Players[1].ID].NumGames = 1

\* C5 as stated: End() of a replay appends and broadcasts one deck-order
\* action and changes nothing else (the finish time aside)
C5_ReplayOnlyDeckOrder ==
    [][\A tid \in TableIds :
         (Ends(tid) /\ table[tid].Options.Replay)
         => /\ game'[tid] = [game[tid] EXCEPT !.Actions = Append(@, "deckOrder"),
                                              !.DatetimeFinished = "now"]
            /\ sent'[tid] = Append(sent[tid], Broadcast("gameAction"))
            /\ UNCHANGED <<table, db, status, tables>>]_vars

\* C5 amended: End() of a replay sets the finish time, forces the score of
\* an abnormal end to 0, appends and broadcasts one deck-order action, and
\* does nothing else: no text, no turn change, no message, no status
\* change, no persistence call, no stats change, no conversion
C5_ReplayShortCircuit ==
    [][\A tid \in TableIds :
         (Ends(tid) /\ table[tid].Options.Replay)
         => /\ game'[tid] =
                 [game[tid] EXCEPT !.Actions = Append(@, "deckOrder"),
                                   !.DatetimeFinished = "now",
                                   !.Score = IF game[tid].EndCondition # EndConditionNormal
                                             THEN 0 ELSE @]
            /\ sent'[tid] = Append(sent[tid], Broadcast("gameAction"))
            /\ pc'[tid] = "replay"
            /\ UNCHANGED <<table, db, status, tables>>]_vars

C5_Witness ==
    \E tid \in TableIds :
        /\ pc[tid] = "replay"
        /\ game[tid].EndCondition = EndConditionTimeout
        /\ game[tid].Actions[Len(game[tid].Actions)] = "deckOrder"

\* the messages of the conversion
ConversionTypes == {"connected", "replayLeader", "noteList", "databaseID", "table", "spectators"}

\* C6: a conversion that ends up with no spectator removes the table from
\* the registry and stops (owner, players and messages untouched); no
\* registered table is a replay without spectators
C6_EmptyReplayDeleted ==
    [][\A tid \in TableIds :
         /\ (tid \in tables' /\ table'[tid].Replay) => Len(table'[tid].Spectators) > 0
         /\ (Ends(tid) /\ table'[tid].Replay /\ Len(table'[tid].Spectators) = 0)
            => /\ tid \notin tables'
               /\ pc'[tid] = "deleted"
               /\ table'[tid].Owner = table[tid].Owner
               /\ table'[tid].Players = table[tid].Players
               /\ \A k \in DOMAIN sent'[tid] :
                     /\ sent'[tid][k].type \notin ConversionTypes
                     /\ sent'[tid][k].type = "status" => sent'[tid][k].arg = 0]_vars

C6_Witness ==
    \E tid \in TableIds :
        /\ pc[tid] = "deleted"
        /\ tid \notin tables
        /\ table[tid].Replay
        /\ Len(table[tid].Spectators) = 0
        /\ Has(tid, "gameHistory")

\* WriteDatabase of the game of the table has returned without an error
Persisted(tid) == pc[tid] \in {"similarError", "deleted", "converted"}

PriorOnSeed(id) ==
    Cardinality({ k \in 1 .. id - 1 : db.games[k].Seed = db.games[id].Seed })

CallsMade(tid) == SelectSeq(db.calls, LAMBDA c : c[1] = tid)

Made(tid, op, i, j) == \E k \in DOMAIN db.calls : db.calls[k] = <<tid, op, i, j>>

\* a call that was made and failed
Failed(tid, op, i, j) == Made(tid, op, i, j) /\ <<op, i, j>> \in dbFail[tid]

\* C9: a failed read of a player's stats row is fatal: WriteDatabase
\* returns an error, no later persistence call is made, End() sends no
\* gameHistory message and runs no conversion
C9_StatsReadFatal ==
    \A tid \in TableIds :
        \A i \in 0 .. MaxPlayers - 1 :
            Failed(tid, "UserStats.Get", i, 0)
            => /\ pc[tid] = "dbError"
               /\ CallsMade(tid)[Len(CallsMade(tid))] = <<tid, "UserStats.Get", i, 0>>
               /\ ~Has(tid, "gameHistory")
               /\ ~table[tid].Replay

\* the place of a persistence call in the order of WriteDatabase: the
\* stage, then the indices within the stage (the tags have no order)
Stage(op) ==
    CASE op = "Games.Insert" -> 1
      [] op = "GameParticipants.Insert" -> 2
      [] op = "GameParticipantNotes.Insert" -> 3
      [] op = "GameActions.Insert" -> 4
      [] op = "ChatLog.Insert" -> 5
      [] op = "GameTags.Insert" -> 6
      [] op \in {"UserStats.Get", "UserStats.Update"} -> 7
      [] op = "VariantStats.Get" -> 8
      [] op = "VariantStats.Update" -> 9
      [] OTHER -> 10

Key(op, i, j) ==
    CASE op = "GameTags.Insert" -> <<6, 0, 0>>
      [] op = "UserStats.Get" -> <<7, i, 0>>
      [] op = "UserStats.Update" -> <<7, i, 1>>
      [] OTHER -> <<Stage(op), i, j>>

Before(a, b) ==
    \/ a[1] < b[1]
    \/ a[1] = b[1] /\ a[2] < b[2]
    \/ a[1] = b[1] /\ a[2] = b[2] /\ a[3] < b[3]

FatalOps ==
    {"Games.Insert", "GameParticipants.Insert", "GameActions.Insert",
     "VariantStats.Get", "VariantStats.Update"}

\* the calls of a WriteDatabase that no fatal failure stops
Planned(tid) ==
    LET g == game[tid]
        n == Len(g.Hands)
    IN  { <<"Games.Insert", 0, 0>>, <<"VariantStats.Get", 0, 0>>,
          <<"VariantStats.Update", 0, 0>> }
        \cup { <<"GameParticipants.Insert", i, 0>> : i \in 0 .. n - 1 }
        \cup { <<"GameParticipantNotes.Insert", c[1] - 1, c[2] - 1>> :
                 c \in { c \in (1 .. n) \X (1 .. DeckSize + NumSuits) :
                           c[2] \in DOMAIN g.Notes[c[1]] /\ g.Notes[c[1]][c[2]] # "" } }
        \cup { <<"GameActions.Insert", i, 0>> : i \in 0 .. Len(g.Actions2) - 1 }
        \cup (IF g.EndCondition \in {EndConditionTimeout, EndConditionTerminated,
                                     EndConditionIdleTimeout}
              THEN { <<"GameActions.Insert", Len(g.Actions2), 0>> } ELSE {})
        \cup { <<"ChatLog.Insert", k, 0>> : k \in 0 .. Len(table[tid].Chat) - 1 }
        \cup { <<"GameTags.Insert", tag, 0>> : tag \in g.Tags }
        \cup { <<"UserStats.Get", i, 0>> : i \in 0 .. n - 1 }
        \cup { <<"UserStats.Update", i, 0>> :
                 i \in { i \in 0 .. n - 1 : <<"UserStats.Get", i, 0>> \notin dbFail[tid] } }

\* where a fatal failure stops WriteDatabase: at a fatal call that fails,
\* or before the insert of a participant whose character is unknown
Stops(tid) ==
    { Key(c[1], c[2], c[3]) : c \in { c \in Planned(tid) \cap dbFail[tid] : c[1] \in FatalOps } }
    \cup { <<2, i - 1, 0 - 1>> :
             i \in { i \in DOMAIN game[tid].Characters :
                       /\ table[tid].Options.CharacterAssignments
                       /\ game[tid].Characters[i] \notin characters \cup {"n/a"} } }

\* the calls of WriteDatabase made for a table, without the indices
WriteCalls(tid) ==
    LET m == SelectSeq(CallsMade(tid), LAMBDA c : c[2] # "Games.GetNumSimilar")
    IN  [k \in DOMAIN m |-> <<m[k][2], m[k][3], m[k][4]>>]

\* C10: WriteDatabase makes its calls in one fixed order; the first fatal
\* failure (or unknown character) makes it return with no later call, so
\* the calls made are exactly the prefix of that order up to the failure
C10_FatalFailureCutsPrefix ==
    \A tid \in TableIds :
        (pc[tid] \notin {"running", "replay"})
        => LET m == WriteCalls(tid)
               stops == Stops(tid)
           IN  /\ \A a, b \in DOMAIN m :
                     a < b => /\ m[a] # m[b]
                              /\ ~Before(Key(m[b][1], m[b][2], m[b][3]),
                                         Key(m[a][1], m[a][2], m[a][3]))
               /\ IF stops = {}
                  THEN Range(m) = Planned(tid) /\ pc[tid] # "dbError"
                  ELSE /\ pc[tid] = "dbError"
                       /\ \E s \in stops :
                             /\ \A o \in stops : ~Before(o, s)
                             /\ Range(m) = { c \in Planned(tid) :
                                               ~Before(s, Key(c[1], c[2], c[3])) }

C10_Witness ==
    \E tid \in TableIds :
        /\ pc[tid] = "dbError"
        /\ Failed(tid, "GameActions.Insert", 1, 0)
        /\ Failed(tid, "GameParticipantNotes.Insert", 0, 2)
        /\ Len(WriteCalls(tid)) = 8

\* the calls whose failure WriteDatabase logs and skips
NonFatalOps ==
    {"GameParticipantNotes.Insert", "ChatLog.Insert", "GameTags.Insert", "UserStats.Update"}

\* the notes of the game of a table that are not empty, as the rows that
\* record them would be
NoteRows(tid) ==
    { [Game |-> game[tid].ID, User |-> table[tid].Players[c[1]].ID,
       Order |-> c[2] - 1, Note |-> game[tid].Notes[c[1]][c[2]]] :
        c \in { c \in (DOMAIN game[tid].Notes) \X (1 .. DeckSize + NumSuits) :
                  c[2] \in DOMAIN game[tid].Notes[c[1]] /\ game[tid].Notes[c[1]][c[2]] # "" } }

\* C11: when only note, chat, tag or stats-update calls fail, WriteDatabase
\* still makes every planned call once and returns no error, End() sends
\* the gameHistory message and converts the table; the rows of the calls
\* that did not fail are stored; an empty note is never inserted
C11_NonFatalFailuresContinue ==
    \A tid \in TableIds :
        /\ \A i \in DOMAIN game[tid].Notes : \A j \in DOMAIN game[tid].Notes[i] :
              game[tid].Notes[i][j] = "" => ~Made(tid, "GameParticipantNotes.Insert", i - 1, j - 1)
        /\ (/\ pc[tid] \notin {"running", "replay"}
            /\ Stops(tid) = {}
            /\ dbFail[tid] # {}
            /\ \A c \in dbFail[tid] : c[1] \in NonFatalOps)
           => /\ pc[tid] \in {"deleted", "converted"}
              /\ Has(tid, "gameHistory")
              /\ table[tid].Replay
              /\ Range(WriteCalls(tid)) = Planned(tid)
              /\ Len(WriteCalls(tid)) = Cardinality(Planned(tid))
              /\ CallsMade(tid)[Len(CallsMade(tid))] = <<tid, "Games.GetNumSimilar", 0, 0>>
              /\ Range(db.notes) \cap NoteRows(tid)
                    = { r \in NoteRows(tid) :
                          \A i \in DOMAIN table[tid].Players :
                              r.User = table[tid].Players[i].ID
                              => <<"GameParticipantNotes.Insert", i - 1, r.Order>> \notin dbFail[tid] }
              /\ db.variantStats.NumGames > 0

C11_Witness ==
    \E tid \in TableIds :
        /\ pc[tid] = "converted"
        /\ Failed(tid, "GameParticipantNotes.Insert", 0, 1)
        /\ Failed(tid, "UserStats.Update", 0, 0)
        /\ Made(tid, "GameParticipantNotes.Insert", 0, 2)
        /\ Made(tid, "UserStats.Update", 1, 0)
        /\ Made(tid, "VariantStats.Update", 0, 0)
        /\ Has(tid, "gameHistory")

\* the modifier of a game, from its two options
ModifierOf(o) ==
    IF o.DeckPlays /\ o.EmptyClues THEN 3
    ELSE IF o.EmptyClues THEN 2
    ELSE IF o.DeckPlays THEN 1
    ELSE 0

\* WriteDatabase read the stats row of the player at seat i
StatsRead(tid, i) ==
    Made(tid, "UserStats.Get", i - 1, 0) /\ <<"UserStats.Get", i - 1, 0>> \notin dbFail[tid]

\* C12: for each player whose stats row was read the row is written; the
\* row written has the bucket of the player count replaced by the game's
\* (score, modifier) when the score is higher, or equal with a lower
\* modifier, and kept otherwise; no other bucket changes and no stored best
\* score ever decreases
C12_UserBestReplacement ==
    [][\A tid \in TableIds :
         (Ends(tid) /\ pc'[tid] # "replay")
         => LET g == game'[tid]
                b == Len(g.Hands) - 2
                m == ModifierOf(table[tid].Options)
            IN  \A i \in DOMAIN table[tid].Players :
                   LET u == table[tid].Players[i].ID
                       old == db.userStats[u].BestScores
                       new == db'.userStats[u].BestScores
                       read == StatsRead(tid, i)'
                       written == read /\ <<"UserStats.Update", i - 1, 0>> \notin dbFail[tid]
                   IN  /\ read => Made(tid, "UserStats.Update", i - 1, 0)'
                       /\ written
                          => /\ db'.userStats[u].NumGames = db.userStats[u].NumGames + 1
                             /\ new[b] =
                                  IF g.Score > old[b].Score
                                  THEN [Score |-> g.Score, Modifier |-> m]
                                  ELSE IF g.Score = old[b].Score /\ m < old[b].Modifier
                                  THEN [Score |-> g.Score, Modifier |-> m]
                                  ELSE old[b]
                       /\ ~written => db'.userStats[u] = db.userStats[u]
                       /\ \A c \in Buckets \ {b} : new[c] = old[c]
                       /\ \A c \in Buckets : new[c].Score >= old[c].Score]_vars

\* a best score of (1, 3) replaced by a game of equal score without
\* modifiers (the bucket of 3 players still holds what was stored)
C12_Witness ==
    \E tid \in TableIds :
        LET u == table[tid].Players[1].ID IN
        /\ pc[tid] = "converted"
        /\ Len(table[tid].Players) = 2
        /\ game[tid].Score = 1
        /\ db.userStats[u].NumGames = 1
        /\ db.userStats[u].BestScores[0] = [Score |-> 1, Modifier |-> 0]
        /\ db.userStats[u].BestScores[1] = [Score |-> 1, Modifier |-> 3]

\* C13: the best score of the variant for the player count changes only
\* when the game had no modifier and a higher score; every game whose
\* WriteDatabase reads the variant stats also writes them, modifiers or not,
\* and a persisted game counts once in the games played
C13_VariantBestUnmodifiedOnly ==
    [][\A tid \in TableIds :
         (Ends(tid) /\ pc'[tid] # "replay")
         => LET g == game'[tid]
                o == table[tid].Options
                b == Len(g.Hands) - 2
                old == db.variantStats
                new == db'.variantStats
            IN  /\ (Made(tid, "VariantStats.Get", 0, 0)'
                    /\ <<"VariantStats.Get", 0, 0>> \notin dbFail[tid])
                   => Made(tid, "VariantStats.Update", 0, 0)'
                /\ IF pc'[tid] = "dbError" THEN new = old
                   ELSE /\ Made(tid, "VariantStats.Update", 0, 0)'
                        /\ new.NumGames = old.NumGames + 1
                        /\ new.BestScores[b] =
                             IF ~o.DeckPlays /\ ~o.EmptyClues /\ g.Score > old.BestScores[b]
                             THEN g.Score ELSE old.BestScores[b]
                        /\ \A c \in Buckets \ {b} : new.BestScores[c] = old.BestScores[c]]_vars

\* a game with deck plays and a score above the stored best: counted, and
\* the best score is kept
C13_Witness ==
    \E tid \in TableIds :
        /\ pc[tid] = "converted"
        /\ table[tid].Options.DeckPlays
        /\ Len(table[tid].Players) = 2
        /\ game[tid].Score = 1
        /\ db.variantStats.NumGames = 1
        /\ db.variantStats.BestScores[0] = 0

\* C14: every message sent to one participant (reveal, gameHistory, status,
\* replay leader, note list, databaseID) goes through a live connection
\* handle, never through a nil or closed one; a participant without a live
\* handle is still in the participant rows and in the names of the history
C14_OnlyLiveHandles ==
    \A tid \in TableIds :
        /\ \A k \in DOMAIN sent[tid] :
              sent[tid][k].to # 0 => Connected(sent[tid][k].sess)
        /\ \A i \in DOMAIN table[tid].Players :
              LET p == table[tid].Players[i] IN
              /\ Persisted(tid)
                 => \E r \in Range(db.participants) :
                        r.Game = game[tid].ID /\ r.User = p.ID /\ r.Index = i - 1
              /\ \A h \in Histories(tid) : p.Name \in h.PlayerNames

\* the place of a message in the order of End(): a status message is the
\* reset to the lobby (arg 0) or the one of the conversion (arg 1); the
\* "user" broadcast goes with the status message it follows
Phase(ev) ==
    CASE ev.type = "gameAction" -> 1
      [] ev.type = "turn" -> 2
      [] ev.type = "gameOver" -> 3
      [] ev.type = "reveal" -> 4
      [] ev.type = "tableGone" -> 5
      [] ev.type = "status" /\ ev.arg = 0 -> 6
      [] ev.type = "gameHistory" -> 7
      [] ev.type = "connected" -> 8
      [] ev.type \in {"status", "replayLeader", "noteList", "databaseID"} -> 9
      [] ev.type = "table" -> 10
      [] ev.type = "spectators" -> 11
      [] OTHER -> 0

Count(tid, type) == Cardinality({ k \in DOMAIN sent[tid] : sent[tid][k].type = type })

\* C15: the messages of a non-replay End() come in the order deck order
\* and time texts (one per player and the total), turn, game over,
\* reveals, table gone, status resets, gameHistory, conversion; the
\* gameHistory message exists only when the game was recorded and carries
\* the id of its row, and no conversion message comes without it
C15_EventOrder ==
    \A tid \in TableIds :
        (pc[tid] \notin {"running", "replay"})
        => LET s == sent[tid]
               n == Len(table[tid].Players)
           IN  /\ \A a, b \in DOMAIN s :
                     (a < b /\ s[a].type # "user" /\ s[b].type # "user")
                     => Phase(s[a]) <= Phase(s[b])
               /\ \A k \in DOMAIN s :
                     /\ Phase(s[k]) = 0 <=> s[k].type = "user"
                     /\ s[k].type = "user" => (k > 1 /\ s[k - 1].type = "status")
               /\ Count(tid, "gameAction") = n + 2
               /\ game[tid].Actions[Len(game[tid].Actions) - n - 1] = "deckOrder"
               /\ \A k \in 0 .. n : game[tid].Actions[Len(game[tid].Actions) - k] = "text"
               /\ Count(tid, "turn") = 1 /\ Count(tid, "gameOver") = 1
               /\ Count(tid, "tableGone") = 1
               /\ Count(tid, "gameHistory") = IF pc[tid] \in {"deleted", "converted"} THEN n ELSE 0
               /\ \A h \in Histories(tid) :
                     /\ h.ID # 0 /\ h.ID \in DOMAIN db.games
                     /\ Made(tid, "VariantStats.Update", 0, 0)
               /\ (\E k \in DOMAIN s : Phase(s[k]) >= 8) <=> pc[tid] = "converted"

C15_Witness ==
    \E tid \in TableIds :
        /\ pc[tid] = "converted"
        /\ Len(table[tid].Players) = 3
        /\ Count(tid, "reveal") = 3
        /\ Count(tid, "gameHistory") = 3
        /\ Count(tid, "databaseID") = 3
        /\ Has(tid, "table")

\* C16: End() of a game at turn T that is not a replay leaves the turn at
\* T + 1 when the game is not converted (no EndTurn set), and at T with
\* EndTurn = T + 1 after the conversion; the turns of the game row and of
\* the history record are T + 1
C16_TurnBookkeeping ==
    [][\A tid \in TableIds :
         (Ends(tid) /\ pc'[tid] # "replay")
         => LET T == game[tid].Turn
                g == game'[tid]
            IN  /\ g.ID # 0 => db'.games[g.ID].NumTurns = T + 1
                /\ \A h \in Histories(tid)' : h.NumTurns = T + 1
                /\ Has(tid, "turn")'
                /\ IF pc'[tid] \in {"deleted", "converted"}
                   THEN g.EndTurn = T + 1 /\ g.Turn = T /\ g.ID # 0
                   ELSE g.EndTurn = game[tid].EndTurn /\ g.Turn = T + 1]_vars

C16_Witness ==
    \E tid \in TableIds :
        /\ pc[tid] = "converted"
        /\ game[tid].Turn = 1 + tid
        /\ game[tid].EndTurn = 2 + tid
        /\ db.games[game[tid].ID].NumTurns = 2 + tid
        /\ \E h \in Histories(tid) : h.NumTurns = 2 + tid

\* C17: the conversion of a game that did not end by idle timeout appends
\* one spectator per present player, in seating order, with the id, name
\* and connection handle of the player and DeckSize + NumSuits notes, and
\* none for an absent player; it sets the replay flag, and when the table
\* is kept every player is present afterwards
C17_PresentPlayersPromoted ==
    [][\A tid \in TableIds :
         (/\ Ends(tid)
          /\ pc'[tid] \in {"deleted", "converted"}
          /\ game[tid].EndCondition # EndConditionIdleTimeout)
         => LET t == table[tid]
                before == Len(t.Spectators)
                after == table'[tid].Spectators
                present == SelectSeq(t.Players, LAMBDA p : p.Present)
            IN  /\ Len(after) = before + Len(present)
                /\ SubSeq(after, 1, before) = t.Spectators
                /\ \A k \in DOMAIN present :
                      /\ after[before + k].ID = present[k].ID
                      /\ after[before + k].Name = present[k].Name
                      /\ after[before + k].Session = present[k].Session
                      /\ Len(after[before + k].Notes) = DeckSize + NumSuits
                /\ table'[tid].Replay
                /\ pc'[tid] = "converted"
                   => \A i \in DOMAIN table'[tid].Players : table'[tid].Players[i].Present]_vars

\* three players, all present, nobody watching: three spectators
C17_Witness ==
    \E tid \in TableIds :
        /\ pc[tid] = "converted"
        /\ Len(table[tid].Players) = 3
        /\ Len(table[tid].Spectators) = 3
        /\ \A k \in 1 .. 3 : table[tid].Spectators[k].ID = table[tid].Players[k].ID
        /\ table[tid].Replay

\* the action rows recorded for the game of a table, in the order inserted
ActionRows(tid) == SelectSeq(db.actions, LAMBDA r : r.Game = game[tid].ID)

\* C18: a recorded game has one action row per persisted action, with
\* index i - 1 for the i-th, in order, and after them one game-over row at
\* index n exactly when the game ended by timeout, termination or idle
\* timeout (value: the end condition; target: the ending player, 0 for an
\* idle timeout); the deck-order and text actions that End() appended to
\* the live log are in no row
C18_ActionIndices ==
    \A tid \in TableIds :
        Persisted(tid)
        => LET g == game[tid]
               n == Len(g.Actions2)
               rows == ActionRows(tid)
               over == g.EndCondition \in {EndConditionTimeout, EndConditionTerminated,
                                           EndConditionIdleTimeout}
           IN  /\ Len(rows) = IF over THEN n + 1 ELSE n
               /\ \A i \in 1 .. n :
                     rows[i] = [Game |-> g.ID, Index |-> i - 1, Type |-> g.Actions2[i],
                                Target |-> 0, Value |-> 0]
               /\ over => rows[n + 1] =
                             [Game |-> g.ID, Index |-> n, Type |-> "gameOver",
                              Target |-> IF g.EndCondition = EndConditionIdleTimeout
                                         THEN 0 ELSE g.EndPlayer,
                              Value |-> g.EndCondition]
               /\ \A k \in DOMAIN rows : rows[k].Type \notin {"deckOrder", "text"}
               /\ \E k \in DOMAIN g.Actions : g.Actions[k] = "deckOrder"
               /\ SelectSeq(WriteCalls(tid), LAMBDA c : c[1] = "GameActions.Insert")
                     = [i \in 1 .. Len(rows) |-> <<"GameActions.Insert", i - 1, 0>>]

C18_Witness ==
    \E tid \in TableIds :
        /\ pc[tid] = "converted"
        /\ game[tid].EndCondition = EndConditionTerminated
        /\ Len(ActionRows(tid)) = 3
        /\ ActionRows(tid)[3].Index = 2
        /\ ActionRows(tid)[3].Value = EndConditionTerminated
        /\ ActionRows(tid)[3].Target = game[tid].EndPlayer

\* the reveal messages of a table, in the order sent
RevealsSent(tid) == SelectSeq(sent[tid], LAMBDA ev : ev.type = "reveal")

\* C19: End() of a game that is not a replay sends, for each player that
\* is present, one reveal per card of that player's hand, to that player
\* through that player's handle; no card of an absent player is revealed
\* and nobody is sent a card of another hand; End() of a replay reveals
\* nothing
C19_PrivateReveal ==
    [][\A tid \in TableIds :
         Ends(tid)
         => LET t == table[tid]
                g == game[tid]
                r == RevealsSent(tid)'
            IN  /\ pc'[tid] = "replay" => Len(r) = 0
                /\ \A k \in DOMAIN r :
                      \E i \in DOMAIN t.Players :
                          /\ r[k].to = t.Players[i].ID
                          /\ r[k].sess = t.Players[i].Session
                          /\ t.Players[i].Present
                          /\ r[k].arg \in Range(g.Hands[i])
                /\ pc'[tid] # "replay"
                   => \A i \in DOMAIN t.Players : \A c \in Range(g.Hands[i]) :
                          Cardinality({ k \in DOMAIN r : r[k].arg = c })
                            = IF t.Players[i].Present THEN 1 ELSE 0]_vars

\* the first player was sent both cards of their hand, and the card of the
\* second player, who had left the table, was sent to nobody
C19_Witness ==
    \E tid \in TableIds :
        /\ pc[tid] = "converted"
        /\ Len(RevealsSent(tid)) = 2
        /\ \A k \in 1 .. 2 :
              /\ RevealsSent(tid)[k].to = table[tid].Players[1].ID
              /\ RevealsSent(tid)[k].arg = game[tid].Hands[1][k]
        /\ Len(game[tid].Hands[2]) = 1

\* the table was announced gone and later listed again
ListedAgain(tid) ==
    \E a, b \in DOMAIN sent[tid] :
        a < b /\ sent[tid][a].type = "tableGone" /\ sent[tid][b].type = "table"

\* C20 as stated: when End() has returned, a table that was announced gone
\* was listed again afterwards or is no longer in the registry
C20_GoneThenListedOrRemoved ==
    \A tid \in TableIds :
        (pc[tid] # "running" /\ Has(tid, "tableGone"))
        => (ListedAgain(tid) \/ tid \notin tables)

\* C20 amended: End() of a game that is not a replay announces the table
\* gone once; when WriteDatabase and GetNumSimilar succeed, the table is
\* either listed again once, afterwards, and registered, or removed from
\* the registry and not listed; when one of them fails, End() returns with
\* the table registered, announced gone and not listed again
C20_GoneResolvedWhenPersisted ==
    \A tid \in TableIds :
        /\ pc[tid] \in {"running", "replay"} => (~Has(tid, "tableGone") /\ tid \in tables)
        /\ pc[tid] \in {"deleted", "converted"}
           => /\ Count(tid, "tableGone") = 1
              /\ IF tid \in tables
                 THEN ListedAgain(tid) /\ Count(tid, "table") = 1 /\ pc[tid] = "converted"
                 ELSE ~Has(tid, "table") /\ pc[tid] = "deleted"
        /\ pc[tid] \in {"dbError", "similarError"}
           => /\ Count(tid, "tableGone") = 1
              /\ ~Has(tid, "table")
              /\ tid \in tables

C20_Witness ==
    \E tid \in TableIds :
        \E other \in TableIds \ {tid} :
            /\ pc[tid] = "converted" /\ ListedAgain(tid) /\ tid \in tables
            /\ pc[other] = "dbError" /\ Has(other, "tableGone") /\ other \in tables

\* C21: the removals of tables from the registry never overlap: at no
\* time are the delete() calls of two End() under way together, and a
\* table whose End() has removed it is no longer in the registry
C21_RegistryDeleteSerialized ==
    /\ Cardinality(Deleting) <= 1
    /\ \A tid \in TableIds : pc[tid] = "deleted" => tid \notin tables
    /\ \A tid \in TableIds : pc[tid] # "crashed"

====
